---------------------------- MODULE Spec2Model ----------------------------
(***************************************************************************)
(* pg-replicate-sql: the wire front end (pkg/pgwire.Handle and onStart),   *)
(* the start of the process (main, replicate.Run, replicateConnection) and *)
(* the driver of the local store (DbDriver).                               *)
(*                                                                         *)
(* Spec, SpecConns and SpecCancel take a connection frame by frame: one    *)
(* handler runs per client connection, and a handler step is one blocking  *)
(* read together with everything the code does until the next read, every  *)
(* Read returning the requested number of bytes unless it returns an       *)
(* error.  SpecBytes takes one connection byte by byte, a Read returning   *)
(* what has arrived.  SpecRun follows main from config.Load to the exit of *)
(* the process.  The local store, the upstream, the primary and the client *)
(* are the environment: each step draws their part from small sets.        *)
(* Conn.Stream, the parser and the statement generator are not among the   *)
(* sources; what the model needs of them follows the design document.      *)
(***************************************************************************)
EXTENDS Integers, Sequences, FiniteSets, TLC

(***************************************************************************)
(* Bounds of the model.                                                    *)
(***************************************************************************)
MaxSSL == 1        \* SSLRequest frames one connection sends before its startup
MaxCols == 2       \* columns of a local result set
MaxRows == 2       \* rows of a local result set
MaxAffected == 10  \* affected-row count reported by the upstream

Conns == {"c1", "c2"}

(***************************************************************************)
(* Text.  A text is a sequence of one-character strings.                   *)
(***************************************************************************)
UpperLetters ==
    <<"A","B","C","D","E","F","G","H","I","J","K","L","M",
      "N","O","P","Q","R","S","T","U","V","W","X","Y","Z">>
LowerLetters ==
    <<"a","b","c","d","e","f","g","h","i","j","k","l","m",
      "n","o","p","q","r","s","t","u","v","w","x","y","z">>

NUL == "NUL"
NL == "\n"

\* the lower-case letter of each upper-case letter
LowerOf ==
    [ch \in {UpperLetters[i] : i \in 1..26} |->
        LowerLetters[CHOOSE i \in 1..26 : UpperLetters[i] = ch]]

ToLowerChar(ch) == IF ch \in DOMAIN LowerOf THEN LowerOf[ch] ELSE ch

\* strings.ToLower
ToLower(s) == [i \in 1..Len(s) |-> ToLowerChar(s[i])]

\* the bytes of s starting at position i (1-based) are p
HasAt(s, i, p) ==
    /\ i >= 1
    /\ i + Len(p) - 1 <= Len(s)
    /\ \A k \in 1..Len(p) : s[i + k - 1] = p[k]

\* strings.HasPrefix
HasPrefix(s, p) == HasAt(s, 1, p)

\* ".*" over s[from..to]: any bytes but a line feed
DotStar(s, from, to) == \A k \in from..to : s[k] # NL


(***************************************************************************)
(* withStatement, the compiled pattern of postgres.go line 30, used with    *)
(* MatchString: an unanchored match of the literal "with ", any run of     *)
(* bytes without a line feed, " as ", another such run, " select".  The    *)
(* parentheses of the pattern are a capture group, not literal bytes.      *)
(***************************************************************************)
reWith == <<"w","i","t","h"," ">>
reAs == <<" ","a","s"," ">>
reSelect == <<" ","s","e","l","e","c","t">>

withStatement(s) ==
    \E i \in 1..Len(s) :
        /\ HasAt(s, i, reWith)
        /\ \E j \in (i + Len(reWith))..Len(s) :
              /\ HasAt(s, j, reAs)
              /\ DotStar(s, i + Len(reWith), j - 1)
              /\ \E k \in (j + Len(reAs))..Len(s) :
                    /\ HasAt(s, k, reSelect)
                    /\ DotStar(s, j + Len(reAs), k - 1)

(***************************************************************************)
(* The prefixes Handle's switch compares the lowered query with.           *)
(***************************************************************************)
kwSelect == <<"s","e","l","e","c","t">>
kwUpdate == <<"u","p","d","a","t","e">>
kwInsert == <<"i","n","s","e","r","t">>
kwDelete == <<"d","e","l","e","t","e">>
kwCreateTable == <<"c","r","e","a","t","e"," ","t","a","b","l","e">>
kwDeleteTable == <<"d","e","l","e","t","e"," ","t","a","b","l","e">>
kwAlterTable == <<"a","l","t","e","r"," ","t","a","b","l","e">>

\* The case of Handle's switch that a lowered query selects: the cases are
\* tried in source order and the first that matches wins.
Branch(query) ==
    IF HasPrefix(query, kwSelect) \/ withStatement(query) THEN "select"
    ELSE IF HasPrefix(query, kwUpdate) THEN "update"
    ELSE IF HasPrefix(query, kwInsert) THEN "insert"
    ELSE IF HasPrefix(query, kwDelete) THEN "delete"
    ELSE IF HasPrefix(query, kwCreateTable) THEN "create table"
    ELSE IF HasPrefix(query, kwDeleteTable) THEN "delete table"
    ELSE IF HasPrefix(query, kwAlterTable) THEN "alter table"
    ELSE "default"

(***************************************************************************)
(* The statements clients send (the SQL text of a Q message, without the   *)
(* terminating NUL).                                                       *)
(***************************************************************************)
UpperOf ==
    [ch \in {LowerLetters[i] : i \in 1..26} |->
        UpperLetters[CHOOSE i \in 1..26 : LowerLetters[i] = ch]]
ToUpperChar(ch) == IF ch \in DOMAIN UpperOf THEN UpperOf[ch] ELSE ch
ToUpper(s) == [i \in 1..Len(s) |-> ToUpperChar(s[i])]

kwDropTable == <<"d","r","o","p"," ","t","a","b","l","e">>
kwWith == <<"w","i","t","h">>
kwAs == <<"a","s">>
kwBegin == <<"b","e","g","i","n">>

qSelect == kwSelect \o <<" ","1">>
qSelectUpper == ToUpper(kwSelect) \o <<" ","1">>
qSelectSpace == <<" ">> \o qSelect
qSelectLiteral == kwSelect \o <<" ","'","A","'">>
\* with x as (y) select 1
qCte == kwWith \o <<" ","x"," ">> \o kwAs \o <<" ","(","y",")"," ">> \o qSelect
\* with x as(y) select 1
qCteTight == kwWith \o <<" ","x"," ">> \o kwAs \o <<"(","y",")"," ">> \o qSelect
\* with x as (y)<LF>select 1
qCteLines == kwWith \o <<" ","x"," ">> \o kwAs \o <<" ","(","y",")",NL>> \o qSelect
qUpdate == kwUpdate \o <<" ","t">>
\* update t set a='with x as y select'
qUpdateCteText == kwUpdate \o <<" ","t"," ","s","e","t"," ","a","=","'">>
                  \o kwWith \o <<" ","x"," ">> \o kwAs \o <<" ","y"," ">>
                  \o kwSelect \o <<"'">>
qInsert == kwInsert \o <<" ","t">>
qInsertSpace == <<" ">> \o qInsert
qDelete == kwDelete \o <<" ","t">>
qDeleteTable == kwDeleteTable \o <<" ","t">>
qCreateTable == kwCreateTable \o <<" ","t">>
qAlterTable == kwAlterTable \o <<" ","t">>
qDropTable == kwDropTable \o <<" ","t">>
qBegin == kwBegin
qEmpty == <<>>

Statements ==
    { qSelect, qSelectUpper, qSelectSpace, qSelectLiteral,
      qCte, qCteTight, qCteLines,
      qUpdate, qUpdateCteText, qInsert, qInsertSpace, qDelete, qDeleteTable,
      qCreateTable, qAlterTable, qDropTable,
      qBegin, qEmpty }


(***************************************************************************)
(* Protocol constants (postgres.go, lines 19-28).                          *)
(***************************************************************************)
SSLRequest == 80877103
StartupMessage == 196608
AuthenticationOk == "R"
BackendKeyData == "K"
ReadyForQuery == "Z"
SimpleQuery == "Q"
Exit == "X"

(***************************************************************************)
(* uint32 values are held as the 32-bit two's complement integer with the  *)
(* same bits, so a subtraction that wraps below zero is the plain          *)
(* subtraction and only the comparisons need the unsigned order.           *)
(***************************************************************************)
ULt(a, b) == IF (a < 0) = (b < 0) THEN a < b ELSE b < 0

(***************************************************************************)
(* onStart: the frames it reads and the bytes it writes.                   *)
(***************************************************************************)
\* declared lengths of a startup frame; -1 is 0xFFFFFFFF
StartupLens == {0, 7, 8, 9, 10004, 10005, -1}
\* leading int of the frame body; 80877102 is CancelRequest
StartupCodes == {SSLRequest, StartupMessage, 80877102}

\* rerr: which Read fails, if any
StartupFrames ==
    [rerr : {"none", "len", "body"}, len : StartupLens, code : StartupCodes]

\* l := binary.BigEndian.Uint32(readBuf) - 4
StartupBodyLen(f) == f.len - 4

\* what onStart does with the frame it reads
StartupCase(f) ==
    IF f.rerr = "len" THEN "error"
    ELSE IF ULt(StartupBodyLen(f), 4) \/ ULt(10000, StartupBodyLen(f)) THEN "error"
    ELSE IF f.rerr = "body" THEN "error"
    ELSE IF f.code = SSLRequest THEN "ssl"
    ELSE IF f.code = StartupMessage THEN "startup"
    ELSE "other"

\* the frames of each case
StartupFramesOf(case) == { f \in StartupFrames : StartupCase(f) = case }

\* the single byte written in answer to an SSLRequest
NoSSL == [t |-> "N", len |-> 0, payload |-> <<>>]
\* type byte, then the length and the payload words; 73 is the byte 'I'
AuthenticationOkMsg == [t |-> AuthenticationOk, len |-> 8, payload |-> <<0>>]
BackendKeyDataMsg == [t |-> BackendKeyData, len |-> 12, payload |-> <<1234, 5678>>]
ReadyForQueryMsg == [t |-> ReadyForQuery, len |-> 5, payload |-> <<73>>]

\* as StartupReply, with BackendKeyData written before AuthenticationOk
StartupReplyKeyFirst == <<BackendKeyDataMsg, AuthenticationOkMsg, ReadyForQueryMsg>>

\* the writes of the StartupMessage case, in source order
StartupReply == <<AuthenticationOkMsg, BackendKeyDataMsg, ReadyForQueryMsg>>

(***************************************************************************)
(* Frames of a query reply (pgproto3 messages, by type byte).  n is the    *)
(* number of fields of a RowDescription or DataRow; tag is the command     *)
(* tag, the error message or the transaction status.                       *)
(***************************************************************************)
RowDescription(n) == [t |-> "T", n |-> n, tag |-> ""]
DataRow(n) == [t |-> "D", n |-> n, tag |-> ""]
CommandComplete(tag) == [t |-> "C", n |-> 0, tag |-> tag]
ReadyForQueryIdle == [t |-> "Z", n |-> 0, tag |-> "I"]
ErrorResponse(msg) == [t |-> "E", n |-> 0, tag |-> msg]
\* a nil *pgproto3.RowDescription
NilDesc == [t |-> "nil", n |-> 0, tag |-> ""]

\* fmt.Sprintf("%d", n) for n >= 0
Digits == <<"0","1","2","3","4","5","6","7","8","9">>
RECURSIVE Itoa(_)
Itoa(n) == IF n < 10 THEN Digits[n + 1] ELSE Itoa(n \div 10) \o Digits[(n % 10) + 1]

\* fmt's %q of a text: double-quoted, with the Go escapes
QuoteChar(ch) ==
    IF ch = NL THEN "\\n"
    ELSE IF ch = "\"" THEN "\\\""
    ELSE IF ch = "\\" THEN "\\\\"
    ELSE IF ch = NUL THEN "\\x00"
    ELSE ch
RECURSIVE QuoteBody(_)
QuoteBody(s) == IF s = <<>> THEN "" ELSE QuoteChar(Head(s)) \o QuoteBody(Tail(s))
Quote(s) == "\"" \o QuoteBody(s) \o "\""

\* errReadyForQuery: ErrorResponse with the message, then ReadyForQuery('I')
errReadyForQuery(msg) == <<ErrorResponse(msg), ReadyForQueryIdle>>

\* as InsertTag, without the oid field
InsertTagNoOid(n) == "INSERT " \o Itoa(n)

\* command tags of the update, insert and delete cases
UpdateTag(n) == "UPDATE " \o Itoa(n)
InsertTag(n) == "INSERT 0 " \o Itoa(n)
DeleteTag(n) == "DELETE " \o Itoa(n)
RowsAffectedTag(br, n) ==
    IF br = "update" THEN UpdateTag(n)
    ELSE IF br = "insert" THEN InsertTag(n)
    ELSE DeleteTag(n)

\* command tags of the create table, delete table and alter table cases
DdlTag(br) ==
    IF br = "create table" THEN "CREATE TABLE"
    ELSE IF br = "delete table" THEN "DELETE TABLE"
    ELSE "ALTER TABLE"

\* CommandComplete with the tag, then ReadyForQuery('I')
WriteReply(tag) == <<CommandComplete(tag), ReadyForQueryIdle>>

(***************************************************************************)
(* Outcomes of the database calls.                                         *)
(*   err     local.Query or upstream.Exec returned an error                *)
(*   meta    the first metadata call on the rows that fails: "types" is    *)
(*           rows.ColumnTypes in rowDesc, "desccols" rows.Columns in       *)
(*           rowDesc, "datacols" rows.Columns in rowData                   *)
(*   cols    number of columns of the result set                           *)
(*   scan    one entry per row the store returns: does rows.Scan succeed   *)
(*   n       the count Result.RowsAffected returns                         *)
(*   raErr   Result.RowsAffected returned an error                         *)
(***************************************************************************)
NoOutcome ==
    [err |-> FALSE, meta |-> "ok", cols |-> 0, scan |-> <<>>, n |-> 0, raErr |-> FALSE]

BoolSeqs(max) == UNION { [1..k -> BOOLEAN] : k \in 0..max }

\* When rows.Columns fails in rowData no row is scanned: those outcomes
\* differ in the number of rows only.
LocalOutcomes ==
    { [NoOutcome EXCEPT !.err = TRUE] }
    \cup { [NoOutcome EXCEPT !.cols = k, !.scan = sc] :
              k \in 1..MaxCols, sc \in BoolSeqs(MaxRows) }
    \cup { [NoOutcome EXCEPT !.meta = "datacols", !.cols = k,
                             !.scan = [i \in 1..r |-> TRUE]] :
              k \in 1..MaxCols, r \in 0..MaxRows }
    \cup { [NoOutcome EXCEPT !.meta = m, !.cols = 1] : m \in {"types", "desccols"} }

\* driver.ResultNoRows is the Result whose RowsAffected fails: it returns 0
RowsAffectedOutcomes ==
    { [NoOutcome EXCEPT !.err = TRUE], [NoOutcome EXCEPT !.raErr = TRUE] }
    \cup { [NoOutcome EXCEPT !.n = k] : k \in 0..MaxAffected }

DdlOutcomes == { NoOutcome, [NoOutcome EXCEPT !.err = TRUE] }

\* rowDesc: nil when the column types or names cannot be read, else one
\* field per column
rowDesc(rows) ==
    IF rows.meta \in {"types", "desccols"} THEN NilDesc
    ELSE RowDescription(rows.cols)

\* the loop of rowData: a row whose Scan fails is skipped
RECURSIVE rowDataLoop(_, _)
rowDataLoop(scan, ncols) ==
    IF scan = <<>> THEN <<>>
    ELSE IF Head(scan) THEN <<DataRow(ncols)>> \o rowDataLoop(Tail(scan), ncols)
    ELSE rowDataLoop(Tail(scan), ncols)

\* rowData: nil when the column names cannot be read
rowData(rows) ==
    IF rows.meta = "datacols" THEN <<>> ELSE rowDataLoop(rows.scan, rows.cols)

\* as SelectReply, with CommandComplete encoded before the rows
SelectReplyCompleteFirst(desc, data) ==
    <<desc, CommandComplete("")>> \o data \o <<ReadyForQueryIdle>>

\* the reply of the select case: description, rows, CommandComplete(""),
\* ReadyForQuery('I'), written at once
SelectReply(desc, data) ==
    <<desc>> \o data \o <<CommandComplete(""), ReadyForQueryIdle>>


(***************************************************************************)
(* State.                                                                  *)
(*   alive    the process runs (an unrecovered panic ends it)              *)
(*   pc       where each connection's handler is: "start" in onStart,      *)
(*            "loop" at the read that begins an iteration of Handle's      *)
(*            loop, "returned" after a return, "panicked"                  *)
(*   open     the server has not called conn.Close on the connection       *)
(*   startup  how onStart ended: "pending", "ok" (StartupMessage           *)
(*            answered), "ignored" (unknown code, nil returned), "error"   *)
(*   sent     what onStart wrote on the connection, in order               *)
(*   last     the latest iteration of a handler's loop: the connection,    *)
(*            what was read, the statements run on the local store and on  *)
(*            the upstream, the outcome of the database call and the reply *)
(*            written                                                      *)
(***************************************************************************)
VARIABLES alive, pc, open, startup, sent, last

(***************************************************************************)
(* The rest of the process.                                                *)
(*   cancelled  the context main hands to queryproxy.Run and replicate.Run *)
(*              is done                                                    *)
(*   run        where main and replicate.Run are, the calls made so far    *)
(*              with their outcomes, the error Run returned, the schema    *)
(*              snapshot it loaded and the exit code of the process        *)
(*   store      the local store: the rows of postgres_pos, the replication *)
(*              batches whose statements are committed, and the rows of    *)
(*              sqlite_schema                                              *)
(*   stream     the replication consumer inside conn.Stream                *)
(*   net        one client connection byte by byte: what the client sent,  *)
(*              what has reached the socket, and what the handler made of  *)
(*              it                                                         *)
(***************************************************************************)
VARIABLES cancelled, run, store, stream, net

connVars == <<alive, pc, open, startup, sent, last>>
others == <<cancelled, run, store, stream, net>>
vars == <<alive, pc, open, startup, sent, last, cancelled, run, store, stream, net>>

(***************************************************************************)
(* The local store as the replication side sees it.                        *)
(***************************************************************************)
MaxLsn == 3      \* commit LSNs the primary assigns are 1..MaxLsn
MaxChanges == 1  \* row events between a Begin and its Commit
MaxRetries == 1  \* retries of a batch that failed locally

\* SqliteConfig of this process, and the key of another process's position
Cfg == [SourceDB |-> "app", Plugin |-> "pgoutput", Publication |-> "pub"]
OtherCfg == [SourceDB |-> "app", Plugin |-> "pgoutput", Publication |-> "other"]

\* a row of postgres_pos; (source_db, plugin, publication) is the primary key
PosRow(cfg, pos) ==
    [source_db |-> cfg.SourceDB, plugin |-> cfg.Plugin,
     publication |-> cfg.Publication, pos |-> pos]

\* the rows of postgres_pos matched by WHERE source_db = ? AND plugin = ? AND
\* publication = ?
PosRowsOf(rows, cfg) ==
    { r \in rows : /\ r.source_db = cfg.SourceDB
                   /\ r.plugin = cfg.Plugin
                   /\ r.publication = cfg.Publication }

\* DbDriver.Pos with a key that matches every row, for comparison
PosAnyKey(rows, cfg, fault) ==
    IF fault THEN [pos |-> "", err |-> "read position: e"]
    ELSE IF rows = {} THEN [pos |-> "", err |-> ""]
    ELSE [pos |-> (CHOOSE r \in rows : TRUE).pos, err |-> ""]

\* DbDriver.Pos: QueryRow and Scan; sql.ErrNoRows gives the empty position
\* and no error, any other error of the query or of the Scan is returned.
Pos(rows, cfg, fault) ==
    IF fault THEN [pos |-> "", err |-> "read position: e"]
    ELSE IF PosRowsOf(rows, cfg) = {} THEN [pos |-> "", err |-> ""]
    ELSE [pos |-> (CHOOSE r \in PosRowsOf(rows, cfg) : TRUE).pos, err |-> ""]

(***************************************************************************)
(* sqlite_schema and the schema snapshot.  The text of a CREATE TABLE is   *)
(* held as what it declares: the table, its columns in order, and whether  *)
(* the parser accepts it.                                                  *)
(***************************************************************************)
ColDef(name, type) == [Name |-> name, Type |-> type]

colA == ColDef("a", "int4")
colB == ColDef("b", "text")

\* the column lists a CREATE TABLE of the catalog declares
TableDecls == {<<colA>>, <<colA, colB>>, <<colB, colA>>}

TableNames == {"t", "u"}

CreateSqls ==
    [name : TableNames, cols : TableDecls, bad : {FALSE}]
      \cup [name : TableNames, cols : {<<>>}, bad : {TRUE}]

\* NewParser(sql).Parse(): the table name and the columns in declared order,
\* or an error
Parse(sql) ==
    IF sql.bad THEN [tableName |-> "", cols |-> <<>>, err |-> "e"]
    ELSE [tableName |-> sql.name, cols |-> sql.cols, err |-> ""]

\* the rows of SELECT tbl_name, sql FROM sqlite_schema WHERE type = 'table'
CatalogRow(sql) == [TableName |-> sql.name, SQL |-> sql]

Catalogs ==
    {<<>>}
      \cup { <<CatalogRow(a)>> : a \in CreateSqls }
      \cup { <<CatalogRow(a), CatalogRow(b)>> :
               a \in { x \in CreateSqls : x.name = "t" },
               b \in { x \in CreateSqls : x.name = "u" } }

\* a Go map: m[k] = v
EmptyMap == [k \in {} |-> <<>>]
MapPut(m, k, v) == [x \in (DOMAIN m) \cup {k} |-> IF x = k THEN v ELSE m[x]]

\* current := map[string]ColDef{}; for i := range cols { current[col.Name] = col }
RECURSIVE colsLoop(_, _, _)
colsLoop(cols, i, current) ==
    IF i > Len(cols) THEN current
    ELSE colsLoop(cols, i + 1, MapPut(current, cols[i].Name, cols[i]))

\* what can go wrong while the rows are read: the query fails, the Scan of
\* row at fails, or rows.Next() ends the loop before row at because of an
\* error that rows.Err() would report
SchemaFaults ==
    [kind : {"none", "query"}, at : {1}]
      \cup [kind : {"scan", "next"}, at : {1, 2}]
NoFault == [kind |-> "none", at |-> 1]

\* for rows.Next() { Scan; Parse; out[tableName] = current }
RECURSIVE rowsLoop(_, _, _, _)
rowsLoop(rows, i, out, fault) ==
    IF i > Len(rows) \/ (fault.kind = "next" /\ fault.at = i)
    THEN [out |-> out, err |-> ""]
    ELSE IF fault.kind = "scan" /\ fault.at = i
    THEN [out |-> EmptyMap, err |-> "scan: e"]
    ELSE LET p == Parse(rows[i].SQL)
         IN  IF p.err # ""
             THEN [out |-> EmptyMap, err |-> "parse table: e"]
             ELSE rowsLoop(rows, i + 1,
                           MapPut(out, p.tableName, colsLoop(p.cols, 1, EmptyMap)),
                           fault)

\* DbDriver.CurrentSchema
CurrentSchema(rows, fault) ==
    IF fault.kind = "query" THEN [out |-> EmptyMap, err |-> "query schema: e"]
    ELSE rowsLoop(rows, 1, EmptyMap, fault)


NoStep ==
    [conn |-> "none", kind |-> "none", len |-> 0, body |-> <<>>, over |-> FALSE,
     local |-> <<>>, upstream |-> <<>>, env |-> NoOutcome, reply |-> <<>>]

\* a replication batch: the commit LSN its Begin announces and its row events
NoBatch == [lsn |-> 0, changes |-> <<>>]

NoRun == [pc |-> "idle", calls |-> <<>>, err |-> "", schema |-> EmptyMap, exit |-> -1]
NoStore == [pos |-> {}, data |-> {}, catalog |-> <<>>]
NoStream ==
    [state |-> "idle", start |-> "", at |-> 0, batch |-> NoBatch,
     retries |-> 0, prior |-> "", applied |-> 0,
     fault |-> FALSE, got |-> [pos |-> "", err |-> ""]]
NoNet == [phase |-> "idle"]

ConnInit ==
    /\ alive = TRUE
    /\ pc = [c \in Conns |-> "start"]
    /\ open = [c \in Conns |-> TRUE]
    /\ startup = [c \in Conns |-> "pending"]
    /\ sent = [c \in Conns |-> <<>>]
    /\ last = NoStep

Init ==
    /\ ConnInit
    /\ cancelled = FALSE
    /\ run = NoRun
    /\ store = NoStore
    /\ stream = NoStream
    /\ net = NoNet

SSLCount(c) == Cardinality({i \in 1..Len(sent[c]) : sent[c][i] = NoSSL})

(***************************************************************************)
(* onStart, one action per way it treats the frame it reads.  Handle logs  *)
(* an error of onStart and goes on to its loop.                            *)
(***************************************************************************)
onStartError(c) ==
    /\ alive /\ pc[c] = "start"
    /\ StartupFramesOf("error") # {}
    /\ startup' = [startup EXCEPT ![c] = "error"]
    /\ pc' = [pc EXCEPT ![c] = "loop"]
    /\ UNCHANGED <<alive, open, sent, last>>
    /\ UNCHANGED others

\* SSLRequest: write 'N' and read the next startup frame
onStartSSLRequest(c) ==
    /\ alive /\ pc[c] = "start"
    /\ SSLCount(c) < MaxSSL
    /\ StartupFramesOf("ssl") # {}
    /\ sent' = [sent EXCEPT ![c] = Append(@, NoSSL)]
    /\ UNCHANGED <<alive, pc, open, startup, last>>
    /\ UNCHANGED others

onStartStartupMessage(c) ==
    /\ alive /\ pc[c] = "start"
    /\ StartupFramesOf("startup") # {}
    /\ sent' = [sent EXCEPT ![c] = @ \o StartupReply]
    /\ startup' = [startup EXCEPT ![c] = "ok"]
    /\ pc' = [pc EXCEPT ![c] = "loop"]
    /\ UNCHANGED <<alive, open, last>>
    /\ UNCHANGED others

\* any other code: the switch has no default, onStart returns nil
onStartOther(c) ==
    /\ alive /\ pc[c] = "start"
    /\ StartupFramesOf("other") # {}
    /\ startup' = [startup EXCEPT ![c] = "ignored"]
    /\ pc' = [pc EXCEPT ![c] = "loop"]
    /\ UNCHANGED <<alive, open, sent, last>>
    /\ UNCHANGED others

(***************************************************************************)
(* One iteration of Handle's loop.                                         *)
(***************************************************************************)
Step(c, kind) == [NoStep EXCEPT !.conn = c, !.kind = kind]

\* the read of the 5-byte header fails: return
HandleReadError(c) ==
    /\ alive /\ pc[c] = "loop"
    /\ last' = Step(c, "readerr")
    /\ pc' = [pc EXCEPT ![c] = "returned"]
    /\ UNCHANGED <<alive, open, startup, sent>>
    /\ UNCHANGED others

\* 'X': conn.Close() and return
HandleExit(c) ==
    /\ alive /\ pc[c] = "loop"
    /\ last' = Step(c, Exit)
    /\ open' = [open EXCEPT ![c] = FALSE]
    /\ pc' = [pc EXCEPT ![c] = "returned"]
    /\ UNCHANGED <<alive, startup, sent>>
    /\ UNCHANGED others

\* a type byte other than 'Q' and 'X': log and return
HandleUnknownType(c) ==
    /\ alive /\ pc[c] = "loop"
    /\ last' = Step(c, "unknown")
    /\ pc' = [pc EXCEPT ![c] = "returned"]
    /\ UNCHANGED <<alive, open, startup, sent>>
    /\ UNCHANGED others

\* 'Q', and the read of the body fails: return
HandleBodyError(c) ==
    /\ alive /\ pc[c] = "loop"
    /\ last' = Step(c, "bodyerr")
    /\ pc' = [pc EXCEPT ![c] = "returned"]
    /\ UNCHANGED <<alive, open, startup, sent>>
    /\ UNCHANGED others

\* the body of a Q message carrying the statement text
Body(text) == text \o <<NUL>>

\* query := strings.ToLower(string(body[:len(body)-1]))
Query(body) == ToLower(SubSeq(body, 1, Len(body) - 1))

\* a Q message whose declared length is that of its body and the length
\* field
QStep(c, body) ==
    [NoStep EXCEPT !.conn = c, !.kind = SimpleQuery,
                   !.len = Len(body) + 4, !.body = body]

\* the statements of a corpus by the case of the switch they select
StatementsOf(corpus, branches) ==
    { text \in corpus : Branch(Query(Body(text))) \in branches }

\* the select case: local.Query, rowDesc, rowData, one write of the reply.
\* A nil description makes desc.Encode panic; whether the panic ends the
\* process or only this handler is up to the caller of Handle.
HandleSelect(c, statements, outcomes) ==
    /\ alive /\ pc[c] = "loop"
    /\ \E text \in statements :
          LET q == [QStep(c, Body(text)) EXCEPT !.local = <<Query(Body(text))>>]
          IN  \E env \in outcomes :
                LET st == [q EXCEPT !.env = env]
                IN  IF env.err
                    THEN /\ last' = [st EXCEPT !.reply =
                                       errReadyForQuery("failed to query local: e")]
                         /\ UNCHANGED <<alive, pc>>
                    ELSE IF rowDesc(env) = NilDesc
                    THEN /\ last' = st
                         /\ pc' = [pc EXCEPT ![c] = "panicked"]
                         /\ alive' \in BOOLEAN
                    ELSE /\ last' = [st EXCEPT !.reply =
                                       SelectReply(rowDesc(env), rowData(env))]
                         /\ UNCHANGED <<alive, pc>>
    /\ UNCHANGED <<open, startup, sent>>
    /\ UNCHANGED others

\* the update, insert and delete cases: upstream.Exec, Result.RowsAffected
\* (its error is not looked at), CommandComplete with the count
HandleRowsAffected(c, statements, outcomes) ==
    /\ alive /\ pc[c] = "loop"
    /\ \E text \in statements :
          LET q == QStep(c, Body(text))
              query == Query(q.body)
          IN  \E env \in outcomes :
                last' = [q EXCEPT
                           !.env = env, !.upstream = <<query>>,
                           !.reply =
                              IF env.err
                              THEN errReadyForQuery("failed to query upstream: e")
                              ELSE WriteReply(RowsAffectedTag(Branch(query), env.n))]
    /\ UNCHANGED <<alive, pc, open, startup, sent>>
    /\ UNCHANGED others

\* the create table, delete table and alter table cases: upstream.Exec,
\* CommandComplete with the fixed tag
HandleDdl(c, statements, outcomes) ==
    /\ alive /\ pc[c] = "loop"
    /\ \E text \in statements :
          LET q == QStep(c, Body(text))
              query == Query(q.body)
          IN  \E env \in outcomes :
                last' = [q EXCEPT
                           !.env = env, !.upstream = <<query>>,
                           !.reply =
                              IF env.err
                              THEN errReadyForQuery("failed to query upstream: e")
                              ELSE WriteReply(DdlTag(Branch(query)))]
    /\ UNCHANGED <<alive, pc, open, startup, sent>>
    /\ UNCHANGED others

\* the default case: nothing is executed
HandleDefault(c, statements) ==
    /\ alive /\ pc[c] = "loop"
    /\ \E text \in statements :
          LET q == QStep(c, Body(text))
          IN  last' = [q EXCEPT !.reply =
                         errReadyForQuery("unknown query type: "
                                          \o Quote(Query(q.body)))]
    /\ UNCHANGED <<alive, pc, open, startup, sent>>
    /\ UNCHANGED others

\* declared lengths of a Q message that leave no room for the terminator
ShortLens == {0, 1, 2, 3, 4}

\* l := binary.BigEndian.Uint32(b[1:5]) - 4, in uint32: a negative value
\* here stands for the value 2^32 larger
QueryBodyLen(len) == len - 4

\* what a buffer of nearly 4 GiB holds after the Read when the client's
\* next message is Q "select 1": that message, then zero bytes to the end
OverText == <<"q", NUL, NUL, NUL, "\r">> \o qSelect \o <<NUL, NUL>>

\* 'Q' with a declared length below 5.  Length 4: the body is empty, the
\* Read of it returns at once, and body[:len(body)-1] panics.  Length below
\* 4: the subtraction wraps, make asks for nearly 4 GiB and fails, ending
\* the process, or succeeds, and then the Read puts the bytes that follow
\* the message into the body and they are handled as the statement.
HandleShortQuery(c) ==
    /\ alive /\ pc[c] = "loop"
    /\ \E len \in ShortLens :
          LET st == [Step(c, SimpleQuery) EXCEPT !.len = len]
          IN  IF QueryBodyLen(len) = 0
              THEN /\ last' = st
                   /\ pc' = [pc EXCEPT ![c] = "panicked"]
                   /\ alive' \in BOOLEAN
              ELSE \/ /\ last' = st
                      /\ pc' = [pc EXCEPT ![c] = "panicked"]
                      /\ alive' = FALSE
                   \/ /\ last' = [st EXCEPT
                                    !.over = TRUE,
                                    !.reply = errReadyForQuery("unknown query type: "
                                                               \o Quote(OverText))]
                      /\ UNCHANGED <<alive, pc>>
    /\ UNCHANGED <<open, startup, sent>>
    /\ UNCHANGED others

(***************************************************************************)
(* Spec: one connection, with the whole corpus and every outcome of the    *)
(* database calls.                                                         *)
(***************************************************************************)
SelectStatements == StatementsOf(Statements, {"select"})
RowsAffectedStatements == StatementsOf(Statements, {"update", "insert", "delete"})
DdlStatements ==
    StatementsOf(Statements, {"create table", "delete table", "alter table"})
DefaultStatements == StatementsOf(Statements, {"default"})

Next ==
    \E c \in {"c1"} :
        \/ onStartError(c)
        \/ onStartSSLRequest(c)
        \/ onStartStartupMessage(c)
        \/ onStartOther(c)
        \/ HandleReadError(c)
        \/ HandleExit(c)
        \/ HandleUnknownType(c)
        \/ HandleBodyError(c)
        \/ HandleSelect(c, SelectStatements, LocalOutcomes)
        \/ HandleRowsAffected(c, RowsAffectedStatements, RowsAffectedOutcomes)
        \/ HandleDdl(c, DdlStatements, DdlOutcomes)
        \/ HandleDefault(c, DefaultStatements)
        \/ HandleShortQuery(c)

Spec == Init /\ [][Next]_vars


(***************************************************************************)
(* SpecConns: every connection served at once, with one statement for each *)
(* case of the switch and a few outcomes of the database calls.            *)
(***************************************************************************)
FewStatements == {qSelect, qInsert, qCreateTable, qBegin}
FewLocalOutcomes ==
    { o \in LocalOutcomes :
        \/ o.err
        \/ o.meta = "types"
        \/ o.meta = "ok" /\ o.cols = 1 /\ o.scan = <<TRUE>> }
FewRowsAffectedOutcomes ==
    { o \in RowsAffectedOutcomes : o.err \/ o.raErr \/ o.n = 1 }

NextConns ==
    \E c \in Conns :
        \/ onStartError(c)
        \/ onStartSSLRequest(c)
        \/ onStartStartupMessage(c)
        \/ onStartOther(c)
        \/ HandleReadError(c)
        \/ HandleExit(c)
        \/ HandleUnknownType(c)
        \/ HandleBodyError(c)
        \/ HandleSelect(c, StatementsOf(FewStatements, {"select"}),
                        FewLocalOutcomes)
        \/ HandleRowsAffected(c, StatementsOf(FewStatements, {"insert"}),
                              FewRowsAffectedOutcomes)
        \/ HandleDdl(c, StatementsOf(FewStatements, {"create table"}),
                     DdlOutcomes)
        \/ HandleDefault(c, StatementsOf(FewStatements, {"default"}))

SpecConns == Init /\ [][NextConns]_vars

(***************************************************************************)
(* SpecCancel: the connections of SpecConns, and the cancellation of the   *)
(* context main creates.  main takes context.Background() and installs no  *)
(* signal handling, and Handle is not given the context: a handler has     *)
(* nothing to look at, so none of its steps depends on cancelled.          *)
(***************************************************************************)
Cancel ==
    /\ alive /\ ~cancelled
    /\ cancelled' = TRUE
    /\ UNCHANGED <<connVars, run, store, stream, net>>

NextCancel ==
    \/ NextConns
    \/ Cancel

SpecCancel == Init /\ [][NextCancel]_vars

(***************************************************************************)
(* main and replicate.Run.  Each call of main, of Run and of               *)
(* replicateConnection is one step; its outcome is the environment's.      *)
(* run.calls lists the calls made with their outcomes.  A return of Run    *)
(* after line 21 runs the deferred conn.Close.                             *)
(***************************************************************************)
Call(name, ok) == [name |-> name, ok |-> ok]

Running == run.exit = -1

\* a call made before the defer of conn.Close: on an error the caller
\* returns it wrapped in msg
CallStep(from, name, to, msg) ==
    /\ Running /\ run.pc = from
    /\ \E ok \in BOOLEAN :
          run' = [run EXCEPT !.calls = Append(@, Call(name, ok)),
                             !.pc = IF ok THEN to ELSE "fatal",
                             !.err = IF ok THEN @ ELSE msg]
    /\ UNCHANGED <<connVars, cancelled, store, stream, net>>

\* Run returns err after the defer: conn.Close runs
Return(r, msg) ==
    [r EXCEPT !.calls = Append(@, Call("conn.Close", TRUE)),
              !.pc = IF msg = "" THEN "done" ELSE "fatal",
              !.err = msg]

\* a call made after the defer of conn.Close
DeferredCallStep(from, name, to, msg) ==
    /\ Running /\ run.pc = from
    /\ \E ok \in BOOLEAN :
          run' = IF ok
                 THEN [run EXCEPT !.calls = Append(@, Call(name, TRUE)), !.pc = to]
                 ELSE Return([run EXCEPT !.calls = Append(@, Call(name, FALSE))], msg)
    /\ UNCHANGED <<connVars, cancelled, store, stream, net>>

\* main: cfg, err := config.Load()
mainLoad == CallStep("config.Load", "config.Load", "queryproxy.Run", "failed to parse config")

\* main: queryproxy.Run(ctx, cfg)
mainQueryproxy ==
    CallStep("queryproxy.Run", "queryproxy.Run", "NewConn", "failed to start sqledge")

\* replicateConnection: NewConn, DropPublication, CreatePublication
NewConn ==
    CallStep("NewConn", "NewConn", "DropPublication",
             "failed in replicate: create replicate connection: new conn")
\* replicateConnection going on to CreatePublication whatever
\* DropPublication returned, for comparison
DropPublicationUnchecked ==
    /\ Running /\ run.pc = "DropPublication"
    /\ \E ok \in BOOLEAN :
          run' = [run EXCEPT !.calls = Append(@, Call("DropPublication", ok)),
                             !.pc = "CreatePublication"]
    /\ UNCHANGED <<connVars, cancelled, store, stream, net>>

DropPublication ==
    CallStep("DropPublication", "DropPublication", "CreatePublication",
             "failed in replicate: create replicate connection: drop publication")
CreatePublication ==
    CallStep("CreatePublication", "CreatePublication", "sqlx.Open",
             "failed in replicate: create replicate connection: create publication")

\* Run: db, err := sqlx.Open("sqlite", cfg.Local.Path)
sqlxOpen ==
    DeferredCallStep("sqlx.Open", "sqlx.Open", "InitPositionTable",
                     "failed in replicate: connect to local db")

\* Run: driver.InitPositionTable(), CREATE TABLE IF NOT EXISTS postgres_pos
InitPositionTable ==
    DeferredCallStep("InitPositionTable", "InitPositionTable", "CurrentSchema",
                     "failed in replicate: init position tracking")

\* Run: schema, err := driver.CurrentSchema(); sqlgen.NewSqlite(sqliteCfg, schema)
LoadSchema ==
    /\ Running /\ run.pc = "CurrentSchema"
    /\ \E fault \in SchemaFaults :
          LET r == CurrentSchema(store.catalog, fault)
              called == [run EXCEPT !.calls = Append(@, Call("CurrentSchema", r.err = "")),
                                    !.schema = r.out]
          IN  run' = IF r.err = ""
                     THEN [called EXCEPT !.pc = "Stream"]
                     ELSE Return(called, "failed in replicate: get current schema")
    /\ UNCHANGED <<connVars, cancelled, store, stream, net>>

\* main logging the error and returning, for comparison
mainLogsAndReturns ==
    /\ Running /\ run.pc = "fatal"
    /\ run' = [run EXCEPT !.pc = "exited", !.exit = 0]
    /\ UNCHANGED <<connVars, cancelled, store, stream, net>>

\* main: log.Fatal, which exits with code 1
mainFatal ==
    /\ Running /\ run.pc = "fatal"
    /\ run' = [run EXCEPT !.pc = "exited", !.exit = 1]
    /\ UNCHANGED <<connVars, cancelled, store, stream, net>>

\* main returns after Run returned nil
mainReturn ==
    /\ Running /\ run.pc = "done"
    /\ run' = [run EXCEPT !.pc = "exited", !.exit = 0]
    /\ UNCHANGED <<connVars, cancelled, store, stream, net>>

(***************************************************************************)
(* conn.Stream, the replication consumer.  It reads the start position,    *)
(* buffers the row events between a Begin and its Commit, and on the       *)
(* Commit applies the batch to the local store in one local transaction    *)
(* that also sets the persisted position, retrying a failed batch.  The    *)
(* primary delivers the transactions that commit after the start position, *)
(* in the order of their commit LSNs.                                      *)
(***************************************************************************)
Lsns == 1..MaxLsn

\* the LSN a position text stands for; the empty position is the slot's
\* consistent point
Atoi(text) == IF text = "" THEN 0 ELSE CHOOSE n \in 0..MaxLsn : Itoa(n) = text

\* the local transaction of a batch: its statements and the update of the
\* persisted position to the commit LSN
BatchQuery(batch) ==
    [lsn |-> batch.lsn, stmts |-> batch.changes,
     pos |-> PosRow(Cfg, Itoa(batch.lsn))]

\* the local store after a transaction commits
Committed(st, query) ==
    [st EXCEPT !.data = @ \cup {query.lsn},
               !.pos = (@ \ PosRowsOf(@, Cfg)) \cup {query.pos}]

\* DbDriver.Execute returning nil whatever db.Exec returned, for comparison
ExecuteDropsError(st, query, fails) ==
    IF fails THEN [store |-> st, err |-> ""]
    ELSE [store |-> Committed(st, query), err |-> ""]

\* DbDriver.Execute: db.Exec(query), whose error is returned
Execute(st, query, fails) ==
    IF fails THEN [store |-> st, err |-> "e"]
    ELSE [store |-> Committed(st, query), err |-> ""]

\* Stream returns: Run wraps the error and returns, main exits
StreamReturn(msg) ==
    Return(run, IF msg = "" THEN "" ELSE "failed in replicate: streaming failed: " \o msg)

\* Stream begins: the start position is read with driver.Pos
StreamStart ==
    /\ Running /\ run.pc = "Stream"
    /\ \E fault \in BOOLEAN :
          LET p == Pos(store.pos, Cfg, fault)
              called == [run EXCEPT !.calls = Append(@, Call("Stream", TRUE))]
          IN  IF p.err # ""
              THEN /\ run' = Return(called, "failed in replicate: streaming failed: " \o p.err)
                   /\ stream' = [stream EXCEPT !.state = "closing", !.got = p,
                                               !.fault = fault]
              ELSE /\ run' = [called EXCEPT !.pc = "streaming"]
                   /\ stream' = [stream EXCEPT !.state = "streaming", !.got = p,
                                               !.fault = fault,
                                               !.start = p.pos, !.at = Atoi(p.pos)]
    /\ UNCHANGED <<connVars, cancelled, store, net>>

\* Begin{lsn}
StreamBegin ==
    /\ Running /\ run.pc = "streaming"
    /\ stream.state = "streaming" /\ stream.batch = NoBatch
    /\ \E lsn \in Lsns :
          /\ lsn > stream.at
          /\ stream' = [stream EXCEPT !.batch = [lsn |-> lsn, changes |-> <<>>]]
    /\ UNCHANGED <<connVars, cancelled, run, store, net>>

\* Insert, Update, Delete, Truncate: buffered
StreamChange ==
    /\ Running /\ run.pc = "streaming"
    /\ stream.state = "streaming" /\ stream.batch # NoBatch
    /\ Len(stream.batch.changes) < MaxChanges
    /\ stream' = [stream EXCEPT !.batch.changes = Append(@, "insert")]
    /\ UNCHANGED <<connVars, cancelled, run, store, net>>

\* Commit{lsn}: the batch is complete
StreamCommit ==
    /\ Running /\ run.pc = "streaming"
    /\ stream.state = "streaming" /\ stream.batch # NoBatch
    /\ stream' = [stream EXCEPT !.state = "applying", !.retries = 0]
    /\ UNCHANGED <<connVars, cancelled, run, store, net>>

\* one attempt to apply the batch: committed, or rolled back and retried,
\* or rolled back for the last time
StreamApply ==
    /\ Running /\ run.pc = "streaming"
    /\ stream.state = "applying"
    /\ \E fails \in BOOLEAN :
          LET prior == Pos(store.pos, Cfg, FALSE).pos
              r == Execute(store, BatchQuery(stream.batch), fails)
          IN  /\ store' = r.store
              /\ IF r.err = ""
                 THEN /\ stream' = [stream EXCEPT !.state = "streaming",
                                                  !.at = stream.batch.lsn,
                                                  !.batch = NoBatch,
                                                  !.prior = prior,
                                                  !.applied = stream.batch.lsn]
                      /\ UNCHANGED run
                 ELSE IF stream.retries < MaxRetries
                 THEN /\ stream' = [stream EXCEPT !.retries = @ + 1]
                      /\ UNCHANGED run
                 ELSE /\ stream' = [stream EXCEPT !.state = "closing"]
                      /\ run' = StreamReturn("ApplyFatal")
    /\ UNCHANGED <<connVars, cancelled, net>>

\* a frame of the replication stream cannot be decoded
StreamProtocolError ==
    /\ Running /\ run.pc = "streaming"
    /\ stream.state = "streaming"
    /\ stream' = [stream EXCEPT !.state = "closing"]
    /\ run' = StreamReturn("ProtocolError")
    /\ UNCHANGED <<connVars, cancelled, store, net>>

\* the context is done: between two batches Stream closes the copy session
\* and returns nil; a batch in flight is applied first
StreamCancelled ==
    /\ Running /\ run.pc = "streaming"
    /\ cancelled
    /\ stream.state = "streaming" /\ stream.batch = NoBatch
    /\ stream' = [stream EXCEPT !.state = "closing"]
    /\ run' = StreamReturn("")
    /\ UNCHANGED <<connVars, cancelled, store, net>>

(***************************************************************************)
(* SpecRun: one start of the process, from main to its exit, over every    *)
(* content of the local store main may find.                               *)
(***************************************************************************)
InitialStores ==
    { [pos |-> mine \cup theirs,
       data |-> IF mine = {} THEN {} ELSE {1},
       catalog |-> catalog] :
        mine \in {{}, {PosRow(Cfg, Itoa(1))}},
        theirs \in {{}, {PosRow(OtherCfg, Itoa(2))}},
        catalog \in Catalogs }

InitRun ==
    /\ ConnInit
    /\ cancelled = FALSE
    /\ run = [NoRun EXCEPT !.pc = "config.Load"]
    /\ store \in InitialStores
    /\ stream = NoStream
    /\ net = NoNet

NextRun ==
    \/ mainLoad
    \/ mainQueryproxy
    \/ NewConn
    \/ DropPublication
    \/ CreatePublication
    \/ sqlxOpen
    \/ InitPositionTable
    \/ LoadSchema
    \/ StreamStart
    \/ StreamBegin
    \/ StreamChange
    \/ StreamCommit
    \/ StreamApply
    \/ StreamProtocolError
    \/ StreamCancelled
    \/ Cancel
    \/ mainFatal
    \/ mainReturn

SpecRun == InitRun /\ [][NextRun]_vars

(***************************************************************************)
(* One connection byte by byte.  The client sends net.bytes and closes;    *)
(* the network hands them to the socket in pieces of any size.  conn.Read  *)
(* waits for at least one byte or the end of the stream and returns the    *)
(* bytes that are there, up to the size of the buffer; the code does not   *)
(* look at the count it returns, so the rest of a freshly made buffer      *)
(* stays zero.                                                             *)
(***************************************************************************)
ETX == "ETX"
EOT == "EOT"
BS == "BS"
CR == "\r"

\* the value of a byte
LetterVal ==
    [ch \in {LowerLetters[i] : i \in 1..26} \cup {UpperLetters[i] : i \in 1..26} |->
        IF \E i \in 1..26 : LowerLetters[i] = ch
        THEN 96 + (CHOOSE i \in 1..26 : LowerLetters[i] = ch)
        ELSE 64 + (CHOOSE i \in 1..26 : UpperLetters[i] = ch)]
ByteVal(ch) ==
    IF ch = NUL THEN 0
    ELSE IF ch = ETX THEN 3
    ELSE IF ch = EOT THEN 4
    ELSE IF ch = BS THEN 8
    ELSE IF ch = NL THEN 10
    ELSE IF ch = CR THEN 13
    ELSE IF ch = " " THEN 32
    ELSE IF ch = "1" THEN 49
    ELSE LetterVal[ch]

\* binary.BigEndian.Uint32, a value of 2^31 or more held as the negative
\* number 2^32 smaller
Uint32(b) ==
    (IF ByteVal(b[1]) >= 128 THEN ByteVal(b[1]) - 256 ELSE ByteVal(b[1])) * 16777216
      + ByteVal(b[2]) * 65536 + ByteVal(b[3]) * 256 + ByteVal(b[4])

\* make([]byte, size) after a Read that put data at its start
Pad(data, size) == data \o [i \in 1..(size - Len(data)) |-> NUL]

\* a StartupMessage with no parameters: length 8, protocol 196608
StartupBytes == <<NUL, NUL, NUL, BS, NUL, ETX, NUL, NUL>>

\* a Q message: 'Q', the length of the length field and the body, the body
QueryBytes(len, text) == <<"Q", NUL, NUL, NUL, len>> \o Body(text)

\* an X message
ExitBytes == <<"X", NUL, NUL, NUL, EOT>>

\* what the client sends
ByteStreams ==
    { StartupBytes \o QueryBytes(CR, qSelect),
      StartupBytes \o QueryBytes(CR, qSelect) \o ExitBytes,
      StartupBytes \o QueryBytes(NL, qBegin) \o QueryBytes(CR, qSelect) }

Avail == net.arrived - net.off
AtEof == net.arrived = Len(net.bytes) /\ Avail = 0
CanRead == Avail > 0 \/ AtEof

\* the count conn.Read returns for a buffer of size bytes
ReadCount(size) == IF size < Avail THEN size ELSE Avail

\* the buffer after conn.Read returned n
ReadBuffer(size, n) == Pad(SubSeq(net.bytes, net.off + 1, net.off + n), size)

\* the network hands over the next k bytes
Deliver ==
    /\ net.phase # "idle" /\ net.arrived < Len(net.bytes)
    /\ \E k \in 1..(Len(net.bytes) - net.arrived) :
          net' = [net EXCEPT !.arrived = @ + k]
    /\ UNCHANGED <<connVars, cancelled, run, store, stream>>

\* onStart: the Read of the 4-byte length.  An error of onStart is logged
\* by Handle, which goes on to its loop.
onStartReadLen ==
    /\ net.phase = "startlen" /\ CanRead
    /\ IF Avail = 0
       THEN net' = [net EXCEPT !.phase = "header"]
       ELSE LET n == ReadCount(4)
                l == Uint32(ReadBuffer(4, n)) - 4
            IN  net' = [net EXCEPT
                          !.off = @ + n,
                          !.l = l,
                          !.phase = IF ULt(l, 4) \/ ULt(10000, l)
                                    THEN "header" ELSE "startbody"]
    /\ UNCHANGED <<connVars, cancelled, run, store, stream>>

\* onStart: the Read of the rest of the startup frame and the switch on its
\* first four bytes
onStartReadBody ==
    /\ net.phase = "startbody" /\ CanRead
    /\ IF Avail = 0
       THEN net' = [net EXCEPT !.phase = "header"]
       ELSE LET n == ReadCount(net.l)
                msgType == Uint32(ReadBuffer(4, ReadCount(4)))
            IN  net' = [net EXCEPT
                          !.off = @ + n,
                          !.sent = IF msgType = SSLRequest THEN Append(@, NoSSL)
                                   ELSE IF msgType = StartupMessage THEN @ \o StartupReply
                                   ELSE @,
                          !.phase = IF msgType = SSLRequest THEN "startlen" ELSE "header"]
    /\ UNCHANGED <<connVars, cancelled, run, store, stream>>

\* a message as the handler took it off the stream
Parsed(tag, len, body) == [tag |-> tag, len |-> len, body |-> body]

\* Handle: the Read of the 5-byte header and the switch on its first byte
HandleReadHeader ==
    /\ net.phase = "header" /\ CanRead
    /\ IF Avail = 0
       THEN net' = [net EXCEPT !.phase = "returned"]
       ELSE LET n == ReadCount(5)
                b == ReadBuffer(5, n)
                len == Uint32(SubSeq(b, 2, 5))
            IN  IF b[1] = SimpleQuery
                THEN net' = [net EXCEPT !.off = @ + n, !.l = len - 4, !.phase = "body"]
                ELSE IF b[1] = Exit
                THEN net' = [net EXCEPT !.off = @ + n, !.open = FALSE,
                                        !.parsed = Append(@, Parsed(Exit, len, <<>>)),
                                        !.phase = "returned"]
                ELSE net' = [net EXCEPT !.off = @ + n, !.phase = "returned"]
    /\ UNCHANGED <<connVars, cancelled, run, store, stream>>

\* the reply to a statement, up to what the database returns
ReplyTo(query) == [branch |-> Branch(query), query |-> query]

\* Handle: make([]byte, l), the Read of the body, and the handling of the
\* statement.  An empty body makes body[:len(body)-1] panic.  A length that
\* wrapped asks for 2 GiB or more, and the allocation may end the process.
\* A buffer longer than everything the client sends ends in zero bytes: it
\* is held as the bytes read and two zero bytes.
HandleReadBody ==
    /\ net.phase = "body"
    /\ IF net.l = 0
       THEN net' = [net EXCEPT !.phase = "panicked"]
       ELSE \/ /\ net.l < 0
               /\ net' = [net EXCEPT !.phase = "panicked"]
            \/ /\ CanRead
               /\ IF Avail = 0
                  THEN net' = [net EXCEPT !.phase = "returned"]
                  ELSE LET big == net.l < 0 \/ net.l > Len(net.bytes)
                           n == IF big THEN Avail ELSE ReadCount(net.l)
                           body == IF big THEN ReadBuffer(n + 2, n)
                                   ELSE ReadBuffer(net.l, n)
                       IN  net' = [net EXCEPT
                                     !.off = @ + n,
                                     !.parsed = Append(@, Parsed(SimpleQuery, net.l + 4, body)),
                                     !.replies = Append(@, ReplyTo(Query(body))),
                                     !.phase = "header"]
    /\ UNCHANGED <<connVars, cancelled, run, store, stream>>

(***************************************************************************)
(* SpecBytes: one connection, each stream of ByteStreams under every way   *)
(* of delivering it.                                                       *)
(***************************************************************************)
InitBytes ==
    /\ ConnInit
    /\ cancelled = FALSE
    /\ run = NoRun
    /\ store = NoStore
    /\ stream = NoStream
    /\ \E bytes \in ByteStreams :
          net = [phase |-> "startlen", bytes |-> bytes, arrived |-> 0, off |-> 0,
                 l |-> 0, parsed |-> <<>>, sent |-> <<>>, replies |-> <<>>,
                 open |-> TRUE]

NextBytes ==
    \/ Deliver
    \/ onStartReadLen
    \/ onStartReadBody
    \/ HandleReadHeader
    \/ HandleReadBody

SpecBytes == InitBytes /\ [][NextBytes]_vars

(***************************************************************************)
(* What the properties below say about a statement, read off its text      *)
(* alone: its keywords are its lowered white-space separated words.        *)
(***************************************************************************)
IsSpace(ch) == ch \in {" ", NL, "\t"}

RECURSIVE TrimLeft(_)
TrimLeft(s) == IF s # <<>> /\ IsSpace(Head(s)) THEN TrimLeft(Tail(s)) ELSE s

RECURSIVE TrimRight(_)
TrimRight(s) ==
    IF s # <<>> /\ IsSpace(s[Len(s)]) THEN TrimRight(SubSeq(s, 1, Len(s) - 1)) ELSE s

TrimSpace(s) == TrimRight(TrimLeft(s))

WordLen(s) ==
    IF \E i \in 1..Len(s) : IsSpace(s[i])
    THEN (CHOOSE i \in 1..Len(s) :
             IsSpace(s[i]) /\ \A j \in 1..(i - 1) : ~IsSpace(s[j])) - 1
    ELSE Len(s)

RECURSIVE Words(_)
Words(s) ==
    LET t == TrimLeft(s)
    IN  IF t = <<>> THEN <<>>
        ELSE <<SubSeq(t, 1, WordLen(t))>> \o Words(SubSeq(t, WordLen(t) + 1, Len(t)))

Keywords(text) == Words(ToLower(text))

wTable == <<"t","a","b","l","e">>
wCreate == <<"c","r","e","a","t","e">>
wAlter == <<"a","l","t","e","r">>
wDrop == <<"d","r","o","p">>

\* the statement begins with the keyword pair <w table>
IsTableDdl(text, w) ==
    LET k == Keywords(text) IN Len(k) >= 2 /\ k[1] = w /\ k[2] = wTable

\* the statement begins with the keyword w
IsDml(text, w) == LET k == Keywords(text) IN Len(k) >= 1 /\ k[1] = w

\* WITH ... SELECT
IsCte(text) ==
    LET k == Keywords(text)
    IN  Len(k) >= 2 /\ k[1] = kwWith /\ \E i \in 2..Len(k) : k[i] = kwSelect

\* the routing table: "local" for reads, "upstream" for writes and DDL
TargetOf(text) ==
    IF \E w \in {kwInsert, kwUpdate, kwDelete} : IsDml(text, w) THEN "upstream"
    ELSE IF \E w \in {wCreate, wAlter, wDrop} : IsTableDdl(text, w) THEN "upstream"
    ELSE IF IsDml(text, kwSelect) \/ IsCte(text) THEN "local"
    ELSE "none"

\* the statement text of the Q message of the latest iteration
LastText == SubSeq(last.body, 1, Len(last.body) - 1)

\* the latest iteration handled a Q message of connection c
HandledQuery == last.kind = SimpleQuery

\* where the latest iteration executed its statement
LastTarget ==
    IF last.local # <<>> /\ last.upstream # <<>> THEN "both"
    ELSE IF last.local # <<>> THEN "local"
    ELSE IF last.upstream # <<>> THEN "upstream"
    ELSE "none"


(***************************************************************************)
(* Properties.                                                             *)
(***************************************************************************)

\* C1: routing is exclusive.  For every Q message, a statement whose first
\* keyword is insert, update, delete, create table, alter table or drop
\* table is executed on the upstream and never on the local store; a select
\* or WITH ... SELECT is executed on the local store and never on the
\* upstream; any other statement is executed on neither; and a Q message
\* causes at most one execution in total.
RoutingExclusive ==
    HandledQuery =>
        /\ LastTarget = TargetOf(LastText)
        /\ Len(last.local) + Len(last.upstream) <= 1

\* C2: startup handshake ordering.  Each SSLRequest read is answered with
\* exactly one byte 'N', after which the handler reads a startup frame again;
\* when a StartupMessage is read, AuthenticationOk ('R', payload 0), then
\* BackendKeyData ('K'), then ReadyForQuery ('Z', status 'I') are written,
\* each once and in that order, and nothing is written by the handshake once
\* the handler has left it to read query messages.
ExpectedStartupReply ==
    << [t |-> "R", len |-> 8, payload |-> <<0>>],
       [t |-> "K", len |-> 12, payload |-> <<1234, 5678>>],
       [t |-> "Z", len |-> 5, payload |-> <<73>>] >>

Refusals(k) == [i \in 1..k |-> [t |-> "N", len |-> 0, payload |-> <<>>]]

HandshakeShape(c) ==
    \E k \in 0..Len(sent[c]) :
        IF startup[c] = "ok"
        THEN sent[c] = Refusals(k) \o ExpectedStartupReply
        ELSE sent[c] = Refusals(k)

HandshakeStep(c) ==
    /\ sent'[c] # sent[c] => pc[c] = "start"
    /\ (sent'[c] # sent[c] /\ startup'[c] # "ok") =>
          /\ sent'[c] = Append(sent[c], [t |-> "N", len |-> 0, payload |-> <<>>])
          /\ pc'[c] = "start"
    /\ (startup[c] # "ok" /\ startup'[c] = "ok") =>
          /\ sent'[c] = sent[c] \o ExpectedStartupReply
          /\ pc[c] = "start" /\ pc'[c] = "loop"
    /\ pc[c] # "start" => pc'[c] # "start"
    /\ (last' # last /\ last'.conn = c) => pc[c] = "loop"

HandshakeOrder ==
    /\ [](\A c \in Conns : HandshakeShape(c))
    /\ [][\A c \in Conns : HandshakeStep(c)]_vars

\* C2 witness: a connection that sent an SSLRequest, then a StartupMessage,
\* and whose handler has since read a Q message.
HandshakeOrderWitness ==
    /\ HandledQuery
    /\ last.conn = "c1"
    /\ startup["c1"] = "ok"
    /\ Len(sent["c1"]) = 4

\* C3: for every read query that the local store executes successfully (the
\* query, the column metadata and every row scan succeed), the reply is one
\* RowDescription, then one DataRow per result row, then one CommandComplete
\* with the empty tag, then one ReadyForQuery('I'); with no result row it is
\* RowDescription, CommandComplete(""), ReadyForQuery.
ReadSucceeded ==
    /\ HandledQuery
    /\ last.local # <<>>
    /\ ~last.env.err
    /\ last.env.meta = "ok"
    /\ \A i \in 1..Len(last.env.scan) : last.env.scan[i]

SelectReplyOrder ==
    ReadSucceeded =>
        last.reply =
            << [t |-> "T", n |-> last.env.cols, tag |-> ""] >>
            \o [i \in 1..Len(last.env.scan) |->
                   [t |-> "D", n |-> last.env.cols, tag |-> ""]]
            \o << [t |-> "C", n |-> 0, tag |-> ""],
                  [t |-> "Z", n |-> 0, tag |-> "I"] >>

\* C3 witness: a successful read of two rows has been answered.
SelectReplyOrderWitness ==
    /\ ReadSucceeded
    /\ Len(last.env.scan) = 2
    /\ Len(last.reply) = 5

\* C4: for any SELECT reply, the number of DataRow frames equals the number
\* of rows returned by the local store and each DataRow has as many fields
\* as the RowDescription of the same reply, also when scanning a row or
\* reading the column metadata fails.
DataRows == SelectSeq(last.reply, LAMBDA f : f.t = "D")

DataRowsMatchRows ==
    (HandledQuery /\ last.reply # <<>> /\ last.reply[1].t = "T") =>
        /\ Len(DataRows) = Len(last.env.scan)
        /\ \A i \in 1..Len(DataRows) : DataRows[i].n = last.reply[1].n

\* C5: any error while processing a Q message (local query failure, upstream
\* execution failure, failure to read the affected-row count, unclassified
\* statement) produces an ErrorResponse carrying the message followed by
\* ReadyForQuery('I'), and the session remains open: the handler is back at
\* the read of the next message.
QueryFailed ==
    /\ HandledQuery
    /\ \/ last.env.err
       \/ last.env.raErr
       \/ TargetOf(LastText) = "none"

ErrorsAnswered ==
    QueryFailed =>
        /\ Len(last.reply) = 2
        /\ last.reply[1].t = "E"
        /\ last.reply[1].tag # ""
        /\ last.reply[2] = [t |-> "Z", n |-> 0, tag |-> "I"]
        /\ pc[last.conn] = "loop"
        /\ open[last.conn]

\* C6: for every insert, update or delete statement that the upstream
\* executes successfully with affected-row count n, the reply is exactly
\* CommandComplete with the tag "INSERT 0 <n>", "UPDATE <n>" or "DELETE <n>"
\* followed by ReadyForQuery('I'), n being the count the upstream reported.
WriteSucceeded(w) ==
    /\ HandledQuery
    /\ IsDml(LastText, w)
    /\ last.upstream # <<>>
    /\ ~last.env.err
    /\ ~last.env.raErr

TagReply(tag) ==
    << [t |-> "C", n |-> 0, tag |-> tag], [t |-> "Z", n |-> 0, tag |-> "I"] >>

WriteCommandTag ==
    /\ WriteSucceeded(kwInsert) =>
          last.reply = TagReply("INSERT 0 " \o ToString(last.env.n))
    /\ WriteSucceeded(kwUpdate) =>
          last.reply = TagReply("UPDATE " \o ToString(last.env.n))
    /\ WriteSucceeded(kwDelete) =>
          last.reply = TagReply("DELETE " \o ToString(last.env.n))

\* C6 witness: an insert for which the upstream reported ten rows has been
\* answered.
WriteCommandTagWitness ==
    /\ WriteSucceeded(kwInsert)
    /\ last.env.n = 10
    /\ last.reply # <<>>

\* C7: every statement beginning with create table, alter table or drop
\* table is forwarded to the upstream and, on success, answered with
\* CommandComplete carrying "CREATE TABLE", "ALTER TABLE" or "DROP TABLE"
\* followed by ReadyForQuery('I').
DdlAnswered(w, tag) ==
    (HandledQuery /\ IsTableDdl(LastText, w)) =>
        /\ LastTarget = "upstream"
        /\ ~last.env.err => last.reply = TagReply(tag)

DdlForwarded ==
    /\ DdlAnswered(wCreate, "CREATE TABLE")
    /\ DdlAnswered(wAlter, "ALTER TABLE")
    /\ DdlAnswered(wDrop, "DROP TABLE")

\* C8: classification depends only on the first keyword, compared without
\* regard to case after trimming surrounding white space: a query text that
\* differs from another only in the case of the keyword or in leading white
\* space is dispatched to the same target with the same kind of reply.
Canonical(text) == ToLower(TrimSpace(text))

BranchTarget(text) ==
    LET br == Branch(Query(Body(text)))
    IN  IF br = "select" THEN "local" ELSE IF br = "default" THEN "none" ELSE "upstream"

ClassificationIgnoresCaseAndSpace ==
    HandledQuery =>
        \A other \in Statements :
            Canonical(other) = Canonical(LastText) =>
                /\ BranchTarget(other) = LastTarget
                /\ Branch(Query(Body(other))) = Branch(Query(last.body))

\* C9: every query of the form WITH x AS (...) SELECT ... is classified as a
\* read and run against the local store, and only queries that begin with
\* with (or select) are classified as reads.
CteIsRead ==
    HandledQuery =>
        /\ IsCte(LastText) => LastTarget = "local"
        /\ LastTarget = "local" =>
              \/ HasPrefix(Canonical(LastText), kwWith)
              \/ HasPrefix(Canonical(LastText), kwSelect)

\* C10: a wire-frame decode error closes the offending connection and only
\* that one.  When the startup frame is malformed or unreadable, or a message
\* with a tag other than 'Q' or 'X' arrives, the handler closes that
\* connection and processes no further message from it, while the other
\* connections are unaffected; an 'X' message closes the connection and ends
\* the handler.
DecodeErrorStep(c) ==
    /\ (startup[c] = "pending" /\ startup'[c] = "error") =>
          ~open'[c] /\ pc'[c] = "returned"
    /\ (last' # last /\ last'.conn = c /\ last'.kind \in {"unknown", Exit}) =>
          ~open'[c] /\ pc'[c] = "returned"
    /\ (pc'[c] # pc[c] \/ startup'[c] # startup[c] \/ sent'[c] # sent[c]) =>
          \A d \in Conns \ {c} :
              /\ pc'[d] = pc[d] /\ open'[d] = open[d]
              /\ startup'[d] = startup[d] /\ sent'[d] = sent[d]

DecodeErrorClosesConnection == [][\A c \in Conns : DecodeErrorStep(c)]_vars


\* the position persisted for this process's key, as text and as an LSN
PersistedPos == Pos(store.pos, Cfg, FALSE).pos
PersistedLsn == Atoi(PersistedPos)

\* the position is there exactly when committed batches are, and it is the
\* commit LSN of the latest of them
PositionWithData ==
    /\ (store.data = {}) = (PosRowsOf(store.pos, Cfg) = {})
    /\ store.data # {} =>
          /\ PersistedLsn \in store.data
          /\ \A l \in store.data : l <= PersistedLsn
    /\ stream.applied # 0 => PersistedPos = Itoa(stream.applied)

\* a step that changes the position or the committed batches is the commit
\* of the batch in flight
PositionStep ==
    (store'.pos # store.pos \/ store'.data # store.data) =>
        /\ stream.state = "applying"
        /\ store'.data = store.data \cup {stream.batch.lsn}
        /\ Pos(store'.pos, Cfg, FALSE).pos = Itoa(stream.batch.lsn)
        /\ stream.batch.lsn >= PersistedLsn
        /\ store'.pos \ PosRowsOf(store'.pos, Cfg) = store.pos \ PosRowsOf(store.pos, Cfg)

CallsOf(name) == { i \in 1..Len(run.calls) : run.calls[i].name = name }
OkCallsOf(name) == { i \in CallsOf(name) : run.calls[i].ok }

\* every call of b comes after a call of a that returned no error
CallAfterOk(a, b) == \A j \in CallsOf(b) : \E i \in OkCallsOf(a) : i < j

\* C12: on every start of the replication the publication is dropped and
\* then created, in that order, before streaming begins; CreatePublication
\* is called only after DropPublication returned no error, and Stream is
\* never called when either of them failed.
PublicationBeforeStream ==
    /\ CallAfterOk("DropPublication", "CreatePublication")
    /\ CallAfterOk("CreatePublication", "Stream")
    /\ CallAfterOk("DropPublication", "Stream")
    /\ \A name \in {"DropPublication", "CreatePublication", "Stream"} :
          Cardinality(CallsOf(name)) <= 1

\* streaming has begun
PublicationBeforeStreamWitness ==
    /\ CallsOf("Stream") # {}
    /\ run.pc = "streaming"


\* a call of name returned an error
Failed(name) == CallsOf(name) # OkCallsOf(name)

BootstrapCalls == {"sqlx.Open", "InitPositionTable", "CurrentSchema"}

\* C14: in Run the position table is initialised, then the schema snapshot
\* is loaded, and Stream is called only after both returned no error; when
\* opening the local store, initialising the position table or loading the
\* schema fails, Run returns an error, Stream is never called, and the
\* process exits with a code other than 0.
BootstrapOrder ==
    /\ CallAfterOk("sqlx.Open", "InitPositionTable")
    /\ CallAfterOk("InitPositionTable", "CurrentSchema")
    /\ CallAfterOk("InitPositionTable", "Stream")
    /\ CallAfterOk("CurrentSchema", "Stream")
    /\ \A name \in BootstrapCalls :
          Failed(name) =>
              /\ CallsOf("Stream") = {}
              /\ run.err # ""
              /\ run.pc \in {"fatal", "exited"}
              /\ run.exit # 0
              /\ run.pc = "exited" => run.exit = 1

\* the schema could not be loaded and the process has exited
BootstrapOrderWitness ==
    /\ Failed("CurrentSchema")
    /\ OkCallsOf("InitPositionTable") # {}
    /\ run.pc = "exited"
    /\ run.exit = 1


\* the step in which Stream calls driver.Pos
PosCalled == run.pc = "Stream" /\ run'.pc # "Stream"

\* what postgres_pos holds for a key: the pos of its row, or nothing
HasPosition(key) == \E r \in store.pos : PosRow(key, r.pos) = r
PositionOf(key) == (CHOOSE r \in store.pos : PosRow(key, r.pos) = r).pos

PosStep ==
    PosCalled =>
        /\ store' = store
        /\ stream'.fault => stream'.got.err # "" /\ run'.pc = "fatal"
        /\ ~stream'.fault =>
              /\ stream'.got.err = ""
              /\ stream'.got.pos = IF HasPosition(Cfg) THEN PositionOf(Cfg) ELSE ""

\* C15: DbDriver.Pos returns the position persisted for exactly the
\* configured key (source database, plugin, publication); when there is no
\* row for that key it returns the empty position and no error, any other
\* failure of the read is returned as an error and not as an empty
\* position, and Pos leaves the position table as it was.
PosReadsConfiguredKey == [][PosStep]_vars

\* Pos found no row for the configured key while another key has one, and
\* the stream started from the empty position
PosReadsConfiguredKeyWitness ==
    /\ run.pc = "streaming"
    /\ stream.applied = 0
    /\ ~stream.fault
    /\ stream.got = [pos |-> "", err |-> ""]
    /\ ~HasPosition(Cfg)
    /\ HasPosition(OtherCfg)


\* the columns a snapshot holds for a table, and the snapshot entry a
\* column list is stored as
SnapshotColumns(t) == { run.schema[t][c] : c \in DOMAIN run.schema[t] }
StoredAs(cols) == colsLoop(cols, 1, EmptyMap)
ColumnNames(cols) == { cols[i].Name : i \in 1..Len(cols) }

\* the snapshot has the table with all the columns of cols, each name once,
\* and cols is the only declared order the entry can stand for
HoldsInOrder(t, cols) ==
    /\ t \in DOMAIN run.schema
    /\ SnapshotColumns(t) = { cols[i] : i \in 1..Len(cols) }
    /\ Cardinality(DOMAIN run.schema[t]) = Len(cols)
    /\ \A other \in TableDecls : StoredAs(other) = run.schema[t] => other = cols

\* C16: the schema snapshot built by CurrentSchema holds, for every table of
\* the local catalog, all the columns the parser returned, every column name
\* once and in the declared order; and when the CREATE TABLE text of any
\* table fails to parse, CurrentSchema returns an error and no snapshot.
SnapshotKeepsDeclaredColumns ==
    CallsOf("CurrentSchema") # {} =>
        /\ (\E i \in 1..Len(store.catalog) : Parse(store.catalog[i].SQL).err # "") =>
              /\ OkCallsOf("CurrentSchema") = {}
              /\ run.schema = EmptyMap
        /\ OkCallsOf("CurrentSchema") # {} =>
              \A i \in 1..Len(store.catalog) :
                  LET p == Parse(store.catalog[i].SQL)
                  IN  HoldsInOrder(p.tableName, p.cols)


\* a handler takes a Q message off its connection and handles it
ReadsQuery == last' # last /\ last'.kind = SimpleQuery

HandshakeBeforeQueries ==
    \A c \in Conns :
        last.conn = c =>
            \E k \in 0..Len(sent[c]) : sent[c] = Refusals(k) \o ExpectedStartupReply

\* the statements the latest iteration executed, on either target
Executed ==
    { last.local[i] : i \in 1..Len(last.local) }
      \cup { last.upstream[i] : i \in 1..Len(last.upstream) }

\* C20: the SQL text executed on the chosen target is the text of the Q
\* message body with only the NUL terminator removed; classification does
\* not alter the statement, so string literals and quoted identifiers keep
\* their case.
ExecutedTextIsClientText ==
    HandledQuery => \A text \in Executed : text = LastText


\* C19: for a Q message of any declared length the body length, declared
\* length minus 4, is computed without wrapping and the SQL text is taken
\* from inside the body: a declared length below 5 is answered with an
\* error or by closing the connection, never by a crash of the handler and
\* never by handling bytes past the message.
ShortQueryRejected ==
    (HandledQuery /\ ULt(last.len, 5)) =>
        /\ ~ULt(last.len, 4)
        /\ alive
        /\ pc[last.conn] # "panicked"
        /\ ~last.over
        /\ \/ ~open[last.conn]
           \/ last.reply # <<>> /\ last.reply[1].t = "E"


\* the messages a byte stream holds by the wire format: a type byte, a
\* 4-byte length that counts itself and the body, and the body
RECURSIVE Frames(_)
Frames(s) ==
    IF Len(s) < 5 THEN <<>>
    ELSE LET len == Uint32(SubSeq(s, 2, 5))
         IN  <<Parsed(s[1], len, SubSeq(s, 6, len + 1))>>
               \o Frames(SubSeq(s, len + 2, Len(s)))

\* the messages that follow the startup frame of the client's stream, the
\* Q messages among them, and the replies to those
Messages ==
    Frames(SubSeq(net.bytes, Uint32(SubSeq(net.bytes, 1, 4)) + 1, Len(net.bytes)))
IsQuery(m) == m.tag = SimpleQuery
ExpectedReplies ==
    LET queries == SelectSeq(Messages, IsQuery)
    IN  [i \in 1..Len(queries) |-> ReplyTo(Query(queries[i].body))]

IsPrefix(a, b) == Len(a) <= Len(b) /\ SubSeq(b, 1, Len(a)) = a

\* C18: message framing does not depend on how the client's byte stream is
\* delivered: however the stream is split into network reads, the handler
\* takes the same messages off it (tags, lengths, SQL bodies) and sends the
\* same replies, those of the stream read whole.
FramingIgnoresDelivery ==
    /\ net.phase # "panicked"
    /\ IsPrefix(net.sent, StartupReply)
    /\ IsPrefix(net.parsed, Messages)
    /\ IsPrefix(net.replies, ExpectedReplies)
    /\ net.phase = "returned" =>
          /\ net.sent = StartupReply
          /\ net.parsed = Messages
          /\ net.replies = ExpectedReplies

=============================================================================
